---- MODULE Spec2Model ----
(***************************************************************************)
(* Model of the market-data client and report service of the volatility    *)
(* bot (src/logic.py): ticker normalisation, candidate generation, the     *)
(* segment/candidate search of resolve_symbol, the retry loop of _request  *)
(* with its exponential backoff, and the validation and sort of            *)
(* fetch_daily_ohlcv.  One step of the model is one HTTP attempt together   *)
(* with everything the code does until the next attempt.                   *)
(*                                                                         *)
(* Strings that the code inspects character by character (tickers) are     *)
(* sequences of one-character strings.  Delays are counted in tenths of a  *)
(* time-unit, so that 0.5 is 5.                                            *)
(***************************************************************************)
EXTENDS Integers, Sequences, FiniteSets, TLC

VARIABLES
    op,          \* entry point called: "report", "dca" or "fetch"
    raw,         \* the raw ticker text handed to the service
    costBasis,   \* first_cost_basis of the DCA command
    limitArg,    \* limit argument of fetch_daily_ohlcv
    retries,     \* BybitClient.retries
    listed,      \* the upstream's instruments: pairs <<category, symbol>>
    pc,          \* "idle", "request", "returned", "analyze", "render", "done"
    normalized,  \* resolve_symbol: normalized
    candidates,  \* resolve_symbol: candidates
    catIdx,      \* resolve_symbol: position in category_order
    candIdx,     \* resolve_symbol: position in candidates
    req,         \* parameters of the _request call in progress
    attempt,     \* _request: attempt
    delay,       \* _request: delay (tenths of a time-unit)
    sleeps,      \* delays slept so far by the _request call in progress
    outcomes,    \* "fail"/"ok" of each attempt of the call in progress
    payload,     \* the payload _request has just returned
    sleptBefore, \* some earlier _request call has slept
    requests,    \* one entry per _request call started, in order
    errors,      \* exceptions that left the client or the service, in order
    rawRows,     \* fetch_daily_ohlcv: raw_rows of the validated response
    resolution,  \* SymbolResolution returned by resolve_symbol
    candles,     \* list returned by fetch_daily_ohlcv
    stats,       \* dict returned by analyze
    phases,      \* service steps entered, in order
    result       \* what the entry point returned or raised

vars == <<op, raw, costBasis, limitArg, retries, listed, pc, normalized,
          candidates, catIdx, candIdx, req, attempt, delay, sleeps, outcomes,
          payload, sleptBefore, requests, errors, rawRows, resolution, candles,
          stats, phases, result>>

-----------------------------------------------------------------------------
(* Bounds of the model *)

MaxRetries == 4      \* retries ranges over 1..MaxRetries
MaxListed == 2       \* the upstream lists at most this many instruments
MaxExtraRows == 1    \* a kline response has at most MinCandles + this many rows
MaxOver == 1         \* raw tickers exceed MaxTickerLen by at most this much

(* Program constants *)

MaxTickerLen == 20   \* normalize_ticker: len(cleaned) > 20
MinCandles == 30     \* fetch_daily_ohlcv: len(raw_rows) < 30
MaxLimit == 1000     \* fetch_daily_ohlcv: min(limit, 1000)
ReportLimit == 1000  \* generate_report: limit=1000
InitialDelay == 5    \* _request: delay = 0.5, in tenths
BackoffFactor == 2   \* _request: delay *= 2

-----------------------------------------------------------------------------
(* Text helpers *)

Rep(c, n) == [i \in 1..n |-> c]

Range(s) == {s[i] : i \in 1..Len(s)}

RECURSIVE SelectChars(_, _)
SelectChars(s, keep) ==
    IF s = <<>> THEN <<>>
    ELSE IF Head(s) \in keep THEN <<Head(s)>> \o SelectChars(Tail(s), keep)
    ELSE SelectChars(Tail(s), keep)

UpperLetters == {"A", "B", "C", "D", "E", "H", "S", "T", "U"}
LowerLetters == {"a", "b", "c", "d", "e", "h", "s", "t", "u"}
Digits == {"0", "1"}
Whitespace == {" "}
Punctuation == {"-", "/", "$"}

(* str.upper on one character *)
UpperChar(c) ==
    CASE c = "a" -> "A" [] c = "b" -> "B" [] c = "c" -> "C" [] c = "d" -> "D"
      [] c = "e" -> "E" [] c = "h" -> "H" [] c = "s" -> "S" [] c = "t" -> "T"
      [] c = "u" -> "U" [] OTHER -> c

Upper(s) == [i \in 1..Len(s) |-> UpperChar(s[i])]

(* str.strip: leading and trailing whitespace removed *)
RECURSIVE LStrip(_)
LStrip(s) == IF s # <<>> /\ Head(s) \in Whitespace THEN LStrip(Tail(s)) ELSE s

RECURSIVE RStrip(_)
RStrip(s) ==
    IF s # <<>> /\ s[Len(s)] \in Whitespace
    THEN RStrip(SubSeq(s, 1, Len(s) - 1)) ELSE s

Strip(s) == RStrip(LStrip(s))

(* the character class [A-Za-z0-9] of the regular expression *)
AlnumClass == UpperLetters \cup LowerLetters \cup Digits

(* re.sub(r"[^A-Za-z0-9]", "", raw.upper().strip()) *)
Cleaned(r) == SelectChars(Strip(Upper(r)), AlnumClass)

EndsWith(s, suffix) ==
    /\ Len(s) >= Len(suffix)
    /\ SubSeq(s, Len(s) - Len(suffix) + 1, Len(s)) = suffix

USDT == <<"U", "S", "D", "T">>
USDC == <<"U", "S", "D", "C">>
USD == <<"U", "S", "D">>
QuoteSuffixes == {USDT, USDC, USD}

-----------------------------------------------------------------------------
(* Exceptions *)

Err(type, msg) == [type |-> type, msg |-> msg]

EmptyTickerError ==
    Err("ValidationError", "Please send a valid ticker (e.g., BTC, ETHUSDT, PEPE).")
LongTickerError ==
    Err("ValidationError",
        "Ticker is too long. Please send a normal symbol like BTC or SOLUSDT.")
UnreachableError ==
    Err("BybitAPIError", "Could not reach Bybit API. Please try again shortly.")
UnexpectedApiError == Err("BybitAPIError", "Unexpected API failure.")
NotFoundError(n) ==
    [type |-> "SymbolNotFoundError",
     msg |-> "Ticker was not found on Bybit (Linear, Inverse, or Spot).",
     ticker |-> n]
HistoryError ==
    Err("BybitAPIError",
        "Not enough history available (need at least 30 daily candles).")
RowParseError == Err("ValueError", "invalid literal for int()")
CostBasisError == Err("ValidationError", "First cost basis must be positive.")

-----------------------------------------------------------------------------
NoError == Err("none", "")

(* normalize_ticker: the exception it raises, or NoError *)

(* variant: the limit itself is rejected *)
TooLong_OffByOne(cleaned) == Len(cleaned) >= MaxTickerLen

TooLong(cleaned) == Len(cleaned) > MaxTickerLen

NormalizeError(r) ==
    IF Cleaned(r) = <<>> THEN EmptyTickerError
    ELSE IF TooLong(Cleaned(r)) THEN LongTickerError
    ELSE NoError

(* variant: USDC is not taken for a quote suffix *)
HasQuoteSuffix_ForgetsUSDC(n) == EndsWith(n, USDT) \/ EndsWith(n, USD)

(* resolve_symbol: the candidate list of a normalized ticker *)
HasQuoteSuffix(n) == \E suffix \in QuoteSuffixes : EndsWith(n, suffix)

Candidates(n) ==
    IF ~HasQuoteSuffix(n) THEN <<n \o USDT, n \o USD, n>> ELSE <<n>>

(* variant: spot is searched first *)
category_order_SpotFirst == <<"spot", "linear", "inverse">>

category_order == <<"linear", "inverse", "spot">>

-----------------------------------------------------------------------------
(* Requests and the upstream's answers *)

EmptyDict == [k \in {} |-> 0]

(* dict.get(key, default) *)
Get(d, k, default) == IF k \in DOMAIN d THEN d[k] ELSE default

InstrumentsPath == "/v5/market/instruments-info"
KlinePath == "/v5/market/kline"

LookupReq(category, symbol) ==
    [path |-> InstrumentsPath, category |-> category, symbol |-> symbol]

SentLimit(limit) == IF limit < MaxLimit THEN limit ELSE MaxLimit

KlineReq(category, symbol, limit) ==
    [path |-> KlinePath, category |-> category, symbol |-> symbol,
     interval |-> "D", limit |-> SentLimit(limit)]

(* A kline row is modelled by its start time, by the position the upstream  *)
(* delivered it at (standing for its prices), and by whether its fields     *)
(* are numeric text.                                                        *)
Row(ts, position) == [ts |-> ts, close |-> position, numeric |-> TRUE]

Descending(n) == [i \in 1..n |-> Row(n - i + 1, i)]
Ascending(n) == [i \in 1..n |-> Row(i, i)]
Rotated(n) == [i \in 1..n |-> Row(IF i = n THEN 1 ELSE i + 1, i)]
Duplicated(n) == [i \in 1..n |-> Row(IF i = 1 THEN n - 1 ELSE n - i + 1, i)]
Unparseable(n) ==
    [i \in 1..n |-> IF i = n THEN [Row(1, i) EXCEPT !.numeric = FALSE]
                    ELSE Row(n - i + 1, i)]

EnoughRows == MinCandles..(MinCandles + MaxExtraRows)

(* the row lists a kline answer can carry: too few rows, enough rows in     *)
(* several orders, a repeated start time, a row that is not numeric         *)
KlineRows ==
    {Descending(n) : n \in {0, MinCandles - 1} \cup EnoughRows}
    \cup {Unparseable(MinCandles - 1)}
    \cup UNION {{Ascending(n), Rotated(n), Duplicated(n), Unparseable(n)}
               : n \in EnoughRows}

Payload(list) == [retCode |-> 0, retMsg |-> "OK", result |-> [list |-> list]]

(* zero-status payloads that carry no rows: an empty list, a result without *)
(* a list, no result at all                                                 *)
RowlessPayloads ==
    {Payload(<<>>),
     [retCode |-> 0, retMsg |-> "OK", result |-> EmptyDict],
     [retCode |-> 0, retMsg |-> "OK"]}

(* what the upstream can answer to one HTTP attempt of request r *)
Responses(r) ==
    {[kind |-> "RequestException"], [kind |-> "ValueError"]}
    \cup {[kind |-> "payload", payload |-> p] :
            p \in {[retCode |-> 10001, retMsg |-> "params error"],
                   [retMsg |-> "OK", result |-> [list |-> <<>>]]}}
    \cup {[kind |-> "payload", payload |-> p] :
            p \in IF r.path = InstrumentsPath
                  THEN IF <<r.category, r.symbol>> \in listed
                       THEN {Payload(<<[symbol |-> r.symbol]>>)}
                       ELSE RowlessPayloads
                  ELSE RowlessPayloads \cup {Payload(rows) : rows \in KlineRows}}

(* variant: the status code of the payload is not looked at *)
RetCodeIsZero_Unchecked(p) == TRUE

(* _request, one attempt: does the try block reach "return payload"? *)
RetCodeIsZero(p) == "retCode" \in DOMAIN p /\ p.retCode = 0

Succeeds(resp) == resp.kind = "payload" /\ RetCodeIsZero(resp.payload)

(* variant: the call gives up one attempt early *)
IsFinalAttempt_Early(a) == a = retries - 1

(* _request: attempt == self.retries *)
IsFinalAttempt(a) == a = retries

(* variant: the delay grows by 0.5 instead of doubling *)
NextDelay_Linear(d) == d + InitialDelay

(* _request: delay *= 2 *)
NextDelay(d) == d * BackoffFactor

(* payload.get("result", {}).get("list", []) *)
ListOf(p) == Get(Get(p, "result", EmptyDict), "list", <<>>)

-----------------------------------------------------------------------------
(* fetch_daily_ohlcv *)

(* variant: 29 rows are accepted *)
TooFewRows_OffByOne(rows) == Len(rows) < MinCandles - 1

TooFewRows(rows) == Len(rows) < MinCandles

ParseRow(r) == [ts |-> r.ts, close |-> r.close]

(* list.sort(key=lambda c: c.ts): stable, ascending *)
RECURSIVE InsertByTs(_, _)
InsertByTs(sorted, c) ==
    IF sorted = <<>> \/ sorted[Len(sorted)].ts <= c.ts THEN Append(sorted, c)
    ELSE Append(InsertByTs(SubSeq(sorted, 1, Len(sorted) - 1), c),
                sorted[Len(sorted)])

(* variant: the series is returned in the order delivered *)
SortByTs_None(s) == s

RECURSIVE SortByTs(_)
SortByTs(s) ==
    IF s = <<>> THEN <<>>
    ELSE InsertByTs(SortByTs(SubSeq(s, 1, Len(s) - 1)), s[Len(s)])

Candles(rows) == SortByTs([i \in 1..Len(rows) |-> ParseRow(rows[i])])

-----------------------------------------------------------------------------
(* VolatilityAnalyzer *)

(* variant: the 99th percentile is missing *)
PERCENTILES_Five == <<75, 80, 85, 90, 95>>

PERCENTILES == <<75, 80, 85, 90, 95, 99>>

(* analyze: the record's shape; the floating-point statistics are not modelled *)
Analyze(series) ==
    [candle_count |-> Len(series), dca_levels |-> PERCENTILES]

(* The DCA ladder: one step per pump-percentile level of the statistics *)
Ladder(st, basis) ==
    [i \in 1..Len(st.dca_levels) |->
        [step |-> i, percentile |-> st.dca_levels[i], basis |-> basis]]

-----------------------------------------------------------------------------
(* Inputs *)

BTC == <<"B", "T", "C">>

(* tickers whose lookups are checked against every listing of the upstream *)
ListingTickers ==
    {<<"b", "t", "c">>,
     <<" ", "e", "-", "t", "h", "/", "u", "s", "d", "c", " ">>}

CoreTickers ==
    ListingTickers
    \cup {<<>>,
          <<" ", " ", " ">>,
          <<"-", "$">>,
          <<"U", "S", "D">>,
          <<"U", "S">>,
          <<"1", "0", "S", "/">>}

(* tickers around the length limit, bare and with a quote suffix *)
LongTickers ==
    {Rep("A", n) \o tail :
        n \in (MaxTickerLen - 5)..(MaxTickerLen + MaxOver),
        tail \in {<<>>, <<"-">>, USDT, <<"u", "s", "d", " ">>}}

RawTickers == CoreTickers \cup LongTickers

DcaTickers == ListingTickers \cup {<<"-", "$">>}

CostBases == {-1, 0, 1000}

Limits == {MinCandles - 1, MaxLimit - 1, MaxLimit, MaxLimit + 1}

FetchTarget == [category |-> "linear", symbol |-> BTC \o USDT]

Categories == Range(category_order)

(* the instruments a raw ticker's lookups can ask for *)
Universe(r) ==
    IF NormalizeError(r).type = "none"
    THEN Categories \X Range(Candidates(Cleaned(r)))
    ELSE {}

SubsetsUpTo(S, k) == {T \in SUBSET S : Cardinality(T) <= k}

NoResult == [kind |-> "none"]

Init ==
    /\ op \in {"report", "dca", "fetch"}
    /\ retries \in 1..MaxRetries
    /\ raw \in CASE op = "fetch" -> {<<>>}
                 [] op = "dca" -> DcaTickers
                 [] OTHER -> RawTickers
    /\ costBasis \in IF op = "dca" THEN CostBases ELSE {1}
    /\ limitArg \in IF op = "fetch" THEN Limits ELSE {ReportLimit}
    /\ listed \in IF raw \in ListingTickers
                  THEN SubsetsUpTo(Universe(raw), MaxListed)
                  ELSE {{}}
    /\ pc = "idle"
    /\ normalized = <<>>
    /\ candidates = <<>>
    /\ catIdx = 1
    /\ candIdx = 1
    /\ req = EmptyDict
    /\ attempt = 0
    /\ delay = 0
    /\ sleeps = <<>>
    /\ outcomes = <<>>
    /\ payload = EmptyDict
    /\ sleptBefore = FALSE
    /\ requests = <<>>
    /\ errors = <<>>
    /\ rawRows = <<>>
    /\ resolution = EmptyDict
    /\ candles = <<>>
    /\ stats = EmptyDict
    /\ phases = <<>>
    /\ result = NoResult

inputs == <<op, raw, costBasis, limitArg, retries, listed>>

-----------------------------------------------------------------------------
(* Building blocks of the actions *)

(* _request is entered: delay = 0.5, first attempt *)
StartRequest(r) ==
    /\ req' = r
    /\ attempt' = 1
    /\ delay' = InitialDelay
    /\ sleeps' = <<>>
    /\ outcomes' = <<>>
    /\ payload' = EmptyDict
    /\ requests' = Append(requests, r)
    /\ pc' = "request"

(* the caller goes on to steps that make no request: the locals of _request *)
(* are gone                                                                  *)
EndRequest ==
    /\ attempt' = 0
    /\ delay' = 0
    /\ sleeps' = <<>>
    /\ outcomes' = <<>>
    /\ payload' = EmptyDict
    /\ UNCHANGED <<req, requests>>

(* an exception leaves the client and the service *)
Raise(e) ==
    /\ errors' = Append(errors, e)
    /\ result' = [kind |-> "raised", error |-> e]
    /\ pc' = "done"

(* resolve_symbol up to its first lookup *)
ResolveStart ==
    IF NormalizeError(raw).type # "none"
    THEN /\ Raise(NormalizeError(raw))
         /\ UNCHANGED <<normalized, candidates, req, attempt, delay, sleeps,
                        outcomes, payload, requests>>
    ELSE /\ normalized' = Cleaned(raw)
         /\ candidates' = Candidates(Cleaned(raw))
         /\ StartRequest(LookupReq(category_order[1], Candidates(Cleaned(raw))[1]))
         /\ UNCHANGED <<errors, result>>

-----------------------------------------------------------------------------
(* Entry points *)

(* VolatilityReportService.generate_report *)
CallReport ==
    /\ pc = "idle" /\ op = "report"
    /\ phases' = <<"resolve">>
    /\ ResolveStart
    /\ UNCHANGED <<inputs, catIdx, candIdx, sleptBefore, rawRows, resolution,
                   candles, stats>>

(* generate_dca_plan: the cost basis is validated before anything else *)
CallDca ==
    /\ pc = "idle" /\ op = "dca"
    /\ IF costBasis <= 0
       THEN /\ phases' = <<"validate">>
            /\ Raise(CostBasisError)
            /\ UNCHANGED <<normalized, candidates, req, attempt, delay, sleeps,
                           outcomes, payload, requests>>
       ELSE /\ phases' = <<"validate", "resolve">>
            /\ ResolveStart
    /\ UNCHANGED <<inputs, catIdx, candIdx, sleptBefore, rawRows, resolution,
                   candles, stats>>

(* BybitClient.fetch_daily_ohlcv called on its own *)
CallFetch ==
    /\ pc = "idle" /\ op = "fetch"
    /\ phases' = <<"fetch">>
    /\ StartRequest(KlineReq(FetchTarget.category, FetchTarget.symbol, limitArg))
    /\ UNCHANGED <<inputs, normalized, candidates, catIdx, candIdx, sleptBefore,
                   errors, rawRows, resolution, candles, stats, result>>

-----------------------------------------------------------------------------
(* _request: one attempt *)

(* the attempt fails and is not the last: log, sleep, double the delay *)
AttemptRetry ==
    /\ pc = "request"
    /\ \E resp \in Responses(req) : ~Succeeds(resp)
    /\ ~IsFinalAttempt(attempt)
    /\ outcomes' = Append(outcomes, "fail")
    /\ sleeps' = Append(sleeps, delay)
    /\ delay' = NextDelay(delay)
    /\ IF attempt + 1 <= retries
       THEN /\ attempt' = attempt + 1
            /\ UNCHANGED <<pc, errors, result>>
       ELSE \* the for loop is over: raise BybitAPIError("Unexpected API failure.")
            /\ attempt' = attempt
            /\ Raise(UnexpectedApiError)
    /\ UNCHANGED <<inputs, normalized, candidates, catIdx, candIdx, req, payload,
                   sleptBefore, requests, rawRows, resolution, candles, stats,
                   phases>>

(* the last attempt fails: raise BybitAPIError("Could not reach Bybit API...") *)
AttemptGiveUp ==
    /\ pc = "request"
    /\ \E resp \in Responses(req) : ~Succeeds(resp)
    /\ IsFinalAttempt(attempt)
    /\ outcomes' = Append(outcomes, "fail")
    /\ Raise(UnreachableError)
    /\ UNCHANGED <<inputs, normalized, candidates, catIdx, candIdx, req, attempt,
                   delay, sleeps, payload, sleptBefore, requests, rawRows,
                   resolution, candles, stats, phases>>

(* the attempt yields a payload whose retCode is 0: return payload *)
AttemptReturn ==
    /\ pc = "request"
    /\ \E resp \in Responses(req) :
        /\ Succeeds(resp)
        /\ payload' = resp.payload
    /\ outcomes' = Append(outcomes, "ok")
    /\ sleptBefore' = (sleptBefore \/ sleeps # <<>>)
    /\ pc' = "returned"
    /\ UNCHANGED <<inputs, normalized, candidates, catIdx, candIdx, req, attempt,
                   delay, sleeps, requests, errors, rawRows, resolution, candles,
                   stats, phases, result>>

-----------------------------------------------------------------------------
(* resolve_symbol: a lookup has returned *)

(* variant: the search stops before the last category *)
AtLastCategory_SkipsSpot == catIdx = Len(category_order) - 1

AtLastCandidate == candIdx = Len(candidates)
AtLastCategory == catIdx = Len(category_order)

(* a non-empty instrument list: resolve_symbol returns, the service fetches *)
LookupFound ==
    /\ pc = "returned" /\ req.path = InstrumentsPath
    /\ ListOf(payload) # <<>>
    /\ resolution' = [category |-> category_order[catIdx],
                      symbol |-> ListOf(payload)[1].symbol]
    /\ StartRequest(KlineReq(category_order[catIdx], ListOf(payload)[1].symbol,
                             ReportLimit))
    /\ phases' = Append(phases, "fetch")
    /\ UNCHANGED <<inputs, normalized, candidates, catIdx, candIdx, sleptBefore,
                   errors, rawRows, candles, stats, result>>

(* an empty list: the next candidate, or the first one of the next category *)
LookupNext ==
    /\ pc = "returned" /\ req.path = InstrumentsPath
    /\ ListOf(payload) = <<>>
    /\ ~(AtLastCandidate /\ AtLastCategory)
    /\ catIdx' = IF AtLastCandidate THEN catIdx + 1 ELSE catIdx
    /\ candIdx' = IF AtLastCandidate THEN 1 ELSE candIdx + 1
    /\ StartRequest(LookupReq(category_order[catIdx'], candidates[candIdx']))
    /\ UNCHANGED <<inputs, normalized, candidates, sleptBefore, errors, rawRows,
                   resolution, candles, stats, phases, result>>

(* an empty list for the last candidate of the last category *)
LookupNotFound ==
    /\ pc = "returned" /\ req.path = InstrumentsPath
    /\ ListOf(payload) = <<>>
    /\ AtLastCandidate /\ AtLastCategory
    /\ Raise(NotFoundError(normalized))
    /\ UNCHANGED <<inputs, normalized, candidates, catIdx, candIdx, sleptBefore,
                   req, attempt, delay, sleeps, outcomes, payload, requests,
                   rawRows, resolution, candles, stats, phases>>

-----------------------------------------------------------------------------
(* fetch_daily_ohlcv: the kline request has returned *)

AllNumeric(rows) == \A i \in 1..Len(rows) : rows[i].numeric

(* fewer than 30 rows *)
KlineTooShort ==
    /\ pc = "returned" /\ req.path = KlinePath
    /\ TooFewRows(ListOf(payload))
    /\ rawRows' = ListOf(payload)
    /\ Raise(HistoryError)
    /\ UNCHANGED <<inputs, normalized, candidates, catIdx, candIdx, sleptBefore,
                   req, attempt, delay, sleeps, outcomes, payload, requests,
                   resolution, candles, stats, phases>>

(* enough rows, one of them not numeric: int() or float() raises ValueError *)
KlineBadRow ==
    /\ pc = "returned" /\ req.path = KlinePath
    /\ ~TooFewRows(ListOf(payload))
    /\ ~AllNumeric(ListOf(payload))
    /\ rawRows' = ListOf(payload)
    /\ Raise(RowParseError)
    /\ UNCHANGED <<inputs, normalized, candidates, catIdx, candIdx, sleptBefore,
                   req, attempt, delay, sleeps, outcomes, payload, requests,
                   resolution, candles, stats, phases>>

(* enough rows, all numeric: parse, sort, return *)
KlineReturn ==
    /\ pc = "returned" /\ req.path = KlinePath
    /\ ~TooFewRows(ListOf(payload))
    /\ AllNumeric(ListOf(payload))
    /\ rawRows' = ListOf(payload)
    /\ candles' = Candles(ListOf(payload))
    /\ EndRequest
    /\ IF op = "fetch"
       THEN /\ pc' = "done"
            /\ result' = [kind |-> "returned", value |-> candles']
            /\ phases' = phases
       ELSE /\ pc' = "analyze"
            /\ result' = result
            /\ phases' = Append(phases, "analyze")
    /\ UNCHANGED <<inputs, normalized, candidates, catIdx, candIdx, sleptBefore,
                   errors, resolution, stats>>

-----------------------------------------------------------------------------
(* The service after the fetch *)

afterFetch == <<inputs, normalized, candidates, catIdx, candIdx, req, attempt,
                delay, sleeps, outcomes, payload, sleptBefore, requests, errors,
                rawRows, resolution, candles>>

(* VolatilityAnalyzer.analyze *)
AnalyzeCandles ==
    /\ pc = "analyze"
    /\ stats' = Analyze(candles)
    /\ pc' = "render"
    /\ phases' = Append(phases, IF op = "dca" THEN "ladder" ELSE "format")
    /\ UNCHANGED <<afterFetch, result>>

(* format_report *)
FormatReport ==
    /\ pc = "render" /\ op = "report"
    /\ result' = [kind |-> "returned",
                  value |-> [symbol |-> resolution.symbol,
                             category |-> resolution.category,
                             candle_count |-> stats.candle_count]]
    /\ pc' = "done"
    /\ UNCHANGED <<afterFetch, stats, phases>>

(* the ladder derivation of generate_dca_plan *)
DeriveLadder ==
    /\ pc = "render" /\ op = "dca"
    /\ result' = [kind |-> "returned", value |-> Ladder(stats, costBasis)]
    /\ pc' = "done"
    /\ UNCHANGED <<afterFetch, stats, phases>>

Next ==
    \/ CallReport
    \/ CallDca
    \/ CallFetch
    \/ AttemptRetry
    \/ AttemptGiveUp
    \/ AttemptReturn
    \/ LookupFound
    \/ LookupNext
    \/ LookupNotFound
    \/ KlineTooShort
    \/ KlineBadRow
    \/ KlineReturn
    \/ AnalyzeCandles
    \/ FormatReport
    \/ DeriveLadder

Spec == Init /\ [][Next]_vars

-----------------------------------------------------------------------------
(* Vocabulary of the properties *)

RECURSIVE SeqSum(_)
SeqSum(s) == IF s = <<>> THEN 0 ELSE Head(s) + SeqSum(Tail(s))

IsPrefix(s, t) == Len(s) <= Len(t) /\ s = SubSeq(t, 1, Len(s))

(* a _request call has just raised: its last attempt failed *)
RequestRaised ==
    pc = "done" /\ outcomes # <<>> /\ outcomes[Len(outcomes)] = "fail"

Raised(type) == result.kind = "raised" /\ result.error.type = type

(* the instrument lookups started so far, as <<category, symbol>> *)
Lookups ==
    LET made == SelectSeq(requests, LAMBDA r : r.path = "/v5/market/instruments-info")
    IN  [i \in 1..Len(made) |-> <<made[i].category, made[i].symbol>>]

SegmentOrder == <<"linear", "inverse", "spot">>

(* every candidate in every segment: segments outermost, candidates in order *)
FullSearch(cands) ==
    [i \in 1..(3 * Len(cands)) |->
        <<SegmentOrder[((i - 1) \div Len(cands)) + 1],
          cands[((i - 1) % Len(cands)) + 1]>>]

(* resolve_symbol has been entered *)
ResolveEntered ==
    /\ pc # "idle"
    /\ op = "report" \/ (op = "dca" /\ costBasis > 0)

(* number of letters and digits in a raw ticker *)
AlnumCount(r) ==
    Cardinality({i \in 1..Len(r) : r[i] \in UpperLetters \cup LowerLetters \cup Digits})

-----------------------------------------------------------------------------
(* C1: one call to request makes at most `retries` attempts; it returns at  *)
(* the first attempt that yields a payload whose status code is 0, and that *)
(* payload; after `retries` failed attempts it raises exactly one           *)
(* BybitAPIError; a payload with a non-zero status code is never returned.  *)
C1_RequestOutcome ==
    /\ Len(outcomes) <= retries
    /\ pc = "request" =>
        attempt \in 1..retries /\ outcomes = Rep("fail", attempt - 1)
    /\ pc = "returned" =>
        /\ attempt \in 1..retries
        /\ outcomes = Rep("fail", attempt - 1) \o <<"ok">>
    /\ payload # EmptyDict => "retCode" \in DOMAIN payload /\ payload.retCode = 0
    /\ RequestRaised =>
        /\ outcomes = Rep("fail", retries)
        /\ errors = <<result.error>>
        /\ result.error.type = "BybitAPIError"

(* a call returns on its third and last attempt *)
C1_Witness ==
    pc = "returned" /\ retries = 3 /\ outcomes = <<"fail", "fail", "ok">>

-----------------------------------------------------------------------------
(* C2: in every call the delay slept after the k-th failed attempt is       *)
(* 0.5 * 2^(k-1); a delay is slept only between two attempts; every call    *)
(* starts again at 0.5; with retries = 3 and sustained failure exactly two  *)
(* delays, 0.5 and 1.0, are slept before the single error.                  *)
C2_Backoff ==
    /\ \A k \in 1..Len(sleeps) : sleeps[k] = 5 * 2^(k - 1)
    /\ pc \in {"request", "returned"} \/ RequestRaised => Len(sleeps) = attempt - 1
    /\ pc = "request" => delay = 5 * 2^(attempt - 1)
    /\ pc = "request" /\ attempt = 1 => sleeps = <<>> /\ delay = 5
    /\ RequestRaised /\ retries = 3 =>
        sleeps = <<5, 10>> /\ SeqSum(sleeps) = 15 /\ Len(errors) = 1

(* a later call, made after a call that slept, fails three times *)
C2_Witness ==
    /\ RequestRaised /\ retries = 3
    /\ sleptBefore /\ Len(requests) >= 2
    /\ sleeps = <<5, 10>>

-----------------------------------------------------------------------------
(* C3: the lookups are issued segment by segment in the order linear,       *)
(* inverse, spot, and within a segment in the order of the candidates;      *)
(* resolve_symbol returns at the first lookup that reports an instrument,   *)
(* with that lookup's segment, and issues no lookup after it; so the        *)
(* segment returned is the earliest one that lists a candidate.             *)
C3_SearchOrder ==
    ResolveEntered /\ candidates # <<>> =>
        /\ IsPrefix(Lookups, FullSearch(candidates))
        /\ \A i \in 1..(Len(Lookups) - 1) : Lookups[i] \notin listed
        /\ resolution # EmptyDict =>
            /\ <<resolution.category, resolution.symbol>> = Lookups[Len(Lookups)]
            /\ Lookups[Len(Lookups)] \in listed
            /\ \A i \in 1..3 :
                (\E c \in Range(candidates) : <<SegmentOrder[i], c>> \in listed)
                    => \E j \in 1..i : SegmentOrder[j] = resolution.category

(* a ticker listed in inverse and in spot resolves to inverse *)
C3_Witness ==
    /\ resolution # EmptyDict /\ resolution.category = "inverse"
    /\ Len(candidates) = 3
    /\ \E c \in Range(candidates) : <<"spot", c>> \in listed

-----------------------------------------------------------------------------
(* no segment lists any candidate of the ticker *)
NothingListed ==
    \A i \in 1..3 : \A c \in Range(candidates) : <<SegmentOrder[i], c>> \notin listed

(* resolve_symbol has ended for a ticker that no segment lists *)
UnlistedResolveOver ==
    ResolveEntered /\ candidates # <<>> /\ NothingListed /\ pc = "done"

(* C4, as claimed: if no segment recognizes any candidate, resolve_symbol   *)
(* fails with SymbolNotFoundError, after every candidate has been looked up *)
(* in all three segments.                                                   *)
C4_Original ==
    UnlistedResolveOver =>
        Raised("SymbolNotFoundError") /\ Lookups = FullSearch(candidates)

(* C4, amended: if no segment lists any candidate, resolve_symbol returns   *)
(* no resolution and fails, either with SymbolNotFoundError or with the     *)
(* BybitAPIError of a lookup whose attempts were all used up; it fails with *)
(* SymbolNotFoundError only after every candidate has been looked up in all *)
(* three segments and every lookup reported an empty list.                  *)
C4_Amended ==
    /\ UnlistedResolveOver =>
        /\ result.kind = "raised"
        /\ resolution = EmptyDict
        /\ \/ Raised("SymbolNotFoundError")
           \/ /\ Raised("BybitAPIError")
              /\ RequestRaised
              /\ outcomes = Rep("fail", retries)
              /\ req.path = "/v5/market/instruments-info"
    /\ ResolveEntered /\ Raised("SymbolNotFoundError") =>
        /\ Lookups = FullSearch(candidates)
        /\ Len(Lookups) = 3 * Len(candidates)
        /\ \A i \in 1..Len(Lookups) : Lookups[i] \notin listed
        /\ errors = <<result.error>>

(* all nine lookups of a three-candidate ticker came back empty *)
C4_Witness ==
    /\ Raised("SymbolNotFoundError")
    /\ Len(candidates) = 3
    /\ Len(Lookups) = 9

-----------------------------------------------------------------------------
(* C5: a raw ticker with no letter or digit, or with more than 20 of them,  *)
(* makes resolve_symbol fail with ValidationError before any request; a     *)
(* ticker with 1 to 20 of them is normalized to its letters, uppercased,    *)
(* and its digits, and is not rejected.                                     *)
C5_Validation ==
    ResolveEntered =>
        /\ AlnumCount(raw) = 0 \/ AlnumCount(raw) > 20 =>
            /\ pc = "done"
            /\ Raised("ValidationError")
            /\ errors = <<result.error>>
            /\ requests = <<>>
        /\ AlnumCount(raw) \in 1..20 =>
            /\ normalized = SelectChars(Upper(raw), UpperLetters \cup Digits)
            /\ Len(normalized) = AlnumCount(raw)
            /\ requests # <<>>
            /\ \A i \in 1..Len(errors) : errors[i].type # "ValidationError"

(* 21 letters: rejected without a request *)
C5_Witness ==
    /\ ResolveEntered /\ AlnumCount(raw) = 21
    /\ Raised("ValidationError") /\ requests = <<>>

-----------------------------------------------------------------------------
(* C6: a normalized ticker that ends in USDT, USDC or USD has itself as its *)
(* only candidate; any other has the three candidates <ticker>USDT,         *)
(* <ticker>USD, <ticker>, in this order.                                    *)
C6_Candidates ==
    ResolveEntered /\ normalized # <<>> =>
        /\ IF \/ EndsWith(normalized, <<"U", "S", "D", "T">>)
              \/ EndsWith(normalized, <<"U", "S", "D", "C">>)
              \/ EndsWith(normalized, <<"U", "S", "D">>)
           THEN candidates = <<normalized>>
           ELSE candidates = <<normalized \o <<"U", "S", "D", "T">>,
                               normalized \o <<"U", "S", "D">>,
                               normalized>>
        /\ Lookups[1] = <<"linear", candidates[1]>>

(* a ticker ending in USDC has one candidate *)
C6_Witness ==
    /\ ResolveEntered /\ Len(candidates) = 1
    /\ EndsWith(normalized, <<"U", "S", "D", "C">>)
    /\ Len(Lookups) = 3

-----------------------------------------------------------------------------
HistoryRaised ==
    /\ result.kind = "raised"
    /\ result.error.type = "BybitAPIError"
    /\ result.error.msg = "Not enough history available (need at least 30 daily candles)."

(* C7, as claimed: the error for insufficient history is retried up to the  *)
(* attempt limit with backoff and surfaces only once the attempts are used  *)
(* up.                                                                      *)
C7_Original ==
    HistoryRaised => attempt = retries /\ Len(sleeps) = retries - 1

(* C7, amended: the error for insufficient history is raised right after    *)
(* the attempt that returned the payload, without another attempt and       *)
(* without a sleep; only failed attempts (transport failure, malformed      *)
(* body, non-zero status code) are retried, with exponential backoff, and   *)
(* their error surfaces after `retries` attempts.                           *)
C7_Amended ==
    /\ HistoryRaised =>
        /\ outcomes = Rep("fail", attempt - 1) \o <<"ok">>
        /\ attempt \in 1..retries
        /\ Len(sleeps) = attempt - 1
        /\ Len(rawRows) < 30
        /\ Len(SelectSeq(requests, LAMBDA r : r.path = "/v5/market/kline")) = 1
        /\ errors = <<result.error>>
    /\ RequestRaised =>
        /\ outcomes = Rep("fail", retries)
        /\ sleeps = [k \in 1..(retries - 1) |-> 5 * 2^(k - 1)]
        /\ errors = <<result.error>>

(* insufficient history surfaces after the first attempt of three *)
C7_Witness ==
    HistoryRaised /\ attempt = 1 /\ retries = 3 /\ sleeps = <<>>

-----------------------------------------------------------------------------
(* the kline request has returned a payload with fewer than 30 rows *)
ShortResponse ==
    /\ pc = "returned" /\ req.path = "/v5/market/kline"
    /\ Len(ListOf(payload)) < 30

(* C8: a validated kline response with fewer than 30 rows, an empty or a    *)
(* missing list included, makes fetch_daily_ohlcv fail with the             *)
(* BybitAPIError that asks for at least 30 candles, and return no series;   *)
(* no series shorter than 30 candles is ever returned.                      *)
C8_ShortHistory ==
    /\ [][ShortResponse =>
            /\ pc' = "done"
            /\ result'.kind = "raised"
            /\ result'.error.type = "BybitAPIError"
            /\ result'.error.msg =
                "Not enough history available (need at least 30 daily candles)."
            /\ candles' = <<>>]_vars
    /\ [](candles # <<>> => Len(candles) >= 30)
    /\ [](result.kind = "returned" => candles # <<>>)

(* a payload without a result fails the fetch *)
C8_Witness ==
    /\ HistoryRaised /\ pc = "done"
    /\ payload # EmptyDict /\ "result" \notin DOMAIN payload

-----------------------------------------------------------------------------
NonDecreasing(s) == \A i \in 1..(Len(s) - 1) : s[i].ts <= s[i + 1].ts
StrictlyIncreasing(s) == \A i \in 1..(Len(s) - 1) : s[i].ts < s[i + 1].ts
DistinctTimes(s) == \A i, j \in 1..Len(s) : s[i].ts = s[j].ts => i = j

(* C9, as claimed: every series returned is strictly increasing by          *)
(* timestamp and has between 30 and 1000 candles.                           *)
C9_Original ==
    candles # <<>> =>
        StrictlyIncreasing(candles) /\ Len(candles) >= 30 /\ Len(candles) <= 1000

(* C9, amended: every series returned holds exactly the rows delivered,     *)
(* in non-decreasing order of timestamp (strictly increasing when the rows  *)
(* have distinct timestamps), and at least 30 of them; the limit sent       *)
(* upstream is min(limit, 1000), so the series has at most 1000 candles     *)
(* when the upstream delivers no more rows than that limit.                 *)
C9_Amended ==
    candles # <<>> =>
        /\ NonDecreasing(candles)
        /\ DistinctTimes(rawRows) => StrictlyIncreasing(candles)
        /\ Len(candles) = Len(rawRows)
        /\ Range(candles) = {[ts |-> r.ts, close |-> r.close] : r \in Range(rawRows)}
        /\ Len(candles) >= 30
        /\ req.limit <= 1000
        /\ op = "fetch" => req.limit = IF limitArg < 1000 THEN limitArg ELSE 1000
        /\ Len(rawRows) <= req.limit => Len(candles) <= 1000

(* rows delivered newest first, two of them with the same timestamp *)
C9_Witness ==
    /\ candles # <<>>
    /\ ~NonDecreasing(rawRows)
    /\ ~DistinctTimes(rawRows)
    /\ ~StrictlyIncreasing(candles)

-----------------------------------------------------------------------------
DcaPhases == <<"validate", "resolve", "fetch", "analyze", "ladder">>

====
